---- MODULE Spec2Model ----
(***************************************************************************)
(* Model of run.py (fliem/freesurfer_lgi): the participant-level           *)
(* orchestration of "recon-all -long ... -localGI" over the longitudinal   *)
(* entries of an output directory.                                         *)
(*                                                                         *)
(* Strings of the program (directory entry names, subject labels,          *)
(* timepoint identifiers) are sequences of one-character strings, so that  *)
(* glob matching, split() and sorted() are computed as the code computes   *)
(* them.  Names of the shared assets and of the two pial_lgi files are     *)
(* never taken apart by the code and stay TLA+ strings.                    *)
(***************************************************************************)
EXTENDS Integers, Sequences, FiniteSets, TLC

(* ------------------------------------------------------------------ *)
(* Bounds of the model                                                 *)
(* ------------------------------------------------------------------ *)
\* at most this many entries of EntryUniverse are in the output directory
MaxEntries == 2
\* at most this many labels are given with --participant_label
MaxLabels == 2
\* run() is called at most this many times in a behaviour of SpecRun
MaxCalls == 2
\* a child writes at most this many lines
MaxLines == 2
\* at most this many times in a call of run() readline() is at end of file
\* while poll() is still None
MaxSpin == 1
\* cp and recon-all, the commands of the script, write at most this many lines
CmdLines == 1

(* ------------------------------------------------------------------ *)
(* Strings                                                             *)
(* ------------------------------------------------------------------ *)
\* code point of the characters that occur in the modelled names
Ord(ch) ==
    CASE ch = "-" -> 45 [] ch = "." -> 46
      [] ch = "0" -> 48 [] ch = "1" -> 49 [] ch = "2" -> 50
      [] ch = "_" -> 95
      [] ch = "a" -> 97 [] ch = "b" -> 98 [] ch = "e" -> 101
      [] ch = "g" -> 103 [] ch = "k" -> 107 [] ch = "l" -> 108
      [] ch = "n" -> 110 [] ch = "o" -> 111 [] ch = "s" -> 115
      [] ch = "u" -> 117

SetMin(S) == CHOOSE x \in S : \A y \in S : x <= y
SetMax(S) == CHOOSE x \in S : \A y \in S : x >= y

\* str.startswith
StartsWith(s, p) == Len(s) >= Len(p) /\ SubSeq(s, 1, Len(p)) = p

\* the positions where sep occurs in s
Occurrences(s, sep) ==
    {i \in 1..(Len(s) - Len(sep) + 1) : SubSeq(s, i, i + Len(sep) - 1) = sep}

\* s.split(sep)[0]
SplitFirst(s, sep) ==
    IF Occurrences(s, sep) = {} THEN s
    ELSE SubSeq(s, 1, SetMin(Occurrences(s, sep)) - 1)

\* s.split(sep)[-1]
SplitLast(s, sep) ==
    IF Occurrences(s, sep) = {} THEN s
    ELSE SubSeq(s, SetMax(Occurrences(s, sep)) + Len(sep), Len(s))

\* Python's order on str: by code point, a proper prefix first
StrLeq(a, b) ==
    LET n == IF Len(a) < Len(b) THEN Len(a) ELSE Len(b)
        diff == {i \in 1..n : a[i] # b[i]}
    IN  IF diff = {} THEN Len(a) <= Len(b)
        ELSE Ord(a[SetMin(diff)]) < Ord(b[SetMin(diff)])

SUB == <<"s", "u", "b", "-">>
SES == <<"_", "s", "e", "s", "-">>
LONG == <<".", "l", "o", "n", "g", ".">>

(* ------------------------------------------------------------------ *)
(* Names                                                               *)
(* ------------------------------------------------------------------ *)
\* the subject labels of the model: "01" and "010", which extends it
S01 == <<"0", "1">>
S010 == <<"0", "1", "0">>
Labels == {S01, S010}

\* <tp>.long.<base>, the name recon-all gives the directory of a longitudinal run
LongName(tp, base) == tp \o LONG \o base

\* the names an output directory of the model may contain
EntryUniverse ==
    { LongName(SUB \o S01 \o SES \o <<"1">>, SUB \o S01),
      LongName(SUB \o S01 \o SES \o <<"2">>, SUB \o S01),
      LongName(SUB \o S01 \o SES \o <<"1">>, SUB \o S01 \o <<".", "b", "a", "k">>),
      LongName(SUB \o S010 \o SES \o <<"1">>, SUB \o S010) }

Assets == <<"fsaverage", "lh.EC_average", "rh.EC_average">>
AssetSet == {Assets[i] : i \in 1..Len(Assets)}
Hemis == {"lh.pial_lgi", "rh.pial_lgi"}

RECURSIVE SeqsUpTo(_, _)
\* the sequences over S of length at most n
SeqsUpTo(S, n) ==
    IF n = 0 THEN {<<>>}
    ELSE LET shorter == SeqsUpTo(S, n - 1)
         IN  shorter \cup {Append(q, x) : q \in shorter, x \in S}

SeqToSet(q) == {q[i] : i \in 1..Len(q)}

\* the orders in which a set can be listed
Listings(S) ==
    {q \in SeqsUpTo(S, Cardinality(S)) : Len(q) = Cardinality(S) /\ SeqToSet(q) = S}

(* ------------------------------------------------------------------ *)
(* The functions of run.py                                             *)
(* ------------------------------------------------------------------ *)
\* mutant of RunRaises: the return code is never looked at
RunRaises_Ignored(rc, ignore_errors) == FALSE

\* run(), lines 25-26: the exception for a non-zero return code
RunRaises(rc, ignore_errors) == rc # 0 /\ ~ignore_errors

\* lines 64-66: the labels of the sub-* entries, [basename.split("_")[0].split("-")[-1]]
DerivedSubjects(dir) ==
    {SplitLast(SplitFirst(e, <<"_">>), <<"-">>) : e \in {d \in dir : StartsWith(d, SUB)}}

\* mutant of OutputDirEmpty: the check is missing
OutputDirEmpty_Never(es, as) == FALSE

\* lines 73-75: "if not c", c the glob of output_dir/*: the entries and the assets
OutputDirEmpty(es, as) == es = {} /\ as = {}

\* mutant of NeedsCopy: the asset is copied whether or not it is there
NeedsCopy_Always(present, asset) == TRUE

\* lines 78, 83, 87: "if not os.path.exists(output_dir/asset)"
NeedsCopy(present, asset) == asset \notin present

\* line 94: glob(output_dir/sub-<label>*.long.*)
long_subjects(dir, subject_label) ==
    LET prefix == SUB \o subject_label
    IN  {e \in dir : /\ StartsWith(e, prefix)
                     /\ Occurrences(SubSeq(e, Len(prefix) + 1, Len(e)), LONG) # {}}

RECURSIVE SortedTps(_)
\* line 96: sorted([l.split(".long.")[0] for l in long_subjects])
SortedTps(ls) ==
    IF ls = {} THEN <<>>
    ELSE LET first == CHOOSE e \in ls :
                 \A f \in ls : StrLeq(SplitFirst(e, LONG), SplitFirst(f, LONG))
         IN  <<SplitFirst(first, LONG)>> \o SortedTps(ls \ {first})

\* mutant of NoTimepoints: the check is missing
NoTimepoints_Never(tps) == FALSE

\* line 98: "if not timepoints"
NoTimepoints(tps) == tps = <<>>

\* line 106: tp.split("_")[-1].split("-")[-1]
tp_label(tp) == SplitLast(SplitLast(tp, <<"_">>), <<"-">>)

\* lines 107-109: the entry whose surf directory is inspected
surf_dir(subject_label, ses) ==
    SUB \o subject_label \o SES \o ses \o LONG \o SUB \o subject_label

\* mutant of AlreadyComplete: the check looks for the files under another name
AlreadyComplete_WrongFile(fs, dir) ==
    <<dir, "lh.pial">> \in fs /\ <<dir, "rh.pial">> \in fs

\* lines 110-111: both pial_lgi files exist in surf_dir
AlreadyComplete(fs, dir) ==
    <<dir, "lh.pial_lgi">> \in fs /\ <<dir, "rh.pial_lgi">> \in fs

\* lines 115-118: "recon-all -long {tp} sub-{label}" works in <tp>.long.sub-<label>
ReconTarget(tp, subject_label) == LongName(tp, SUB \o subject_label)

\* mutant of img_not_found: the test for rh.pial_lgi is inverted
img_not_found_Inverted(fs, dir) ==
    (IF <<dir, "lh.pial_lgi">> \notin fs THEN <<"lh.pial_lgi">> ELSE <<>>)
    \o (IF <<dir, "rh.pial_lgi">> \in fs THEN <<"rh.pial_lgi">> ELSE <<>>)

\* lines 126-130
img_not_found(fs, dir) ==
    (IF <<dir, "lh.pial_lgi">> \notin fs THEN <<"lh.pial_lgi">> ELSE <<>>)
    \o (IF <<dir, "rh.pial_lgi">> \notin fs THEN <<"rh.pial_lgi">> ELSE <<>>)

\* lines 147-149: "if bad_tps: raise"
AggregateRaises(bad) == bad # <<>>

\* mutant of AggregateError: the message joins both lists
AggregateError_AllTps(subject_label, good, bad) ==
    [kind |-> "TimepointsFailed", sub |-> subject_label, tps |-> good \o bad]

\* lines 148-149: what the aggregate exception names
AggregateError(subject_label, good, bad) ==
    [kind |-> "TimepointsFailed", sub |-> subject_label, tps |-> bad]

\* mutant of AfterRaise: the exception is swallowed and the subject loop goes on
AfterRaise_Continue == "subject"

\* an uncaught exception ends the script
AfterRaise == "exit"

VARIABLES
    participant_label,   \* args.participant_label; <<>> when the option is absent
    entries,             \* names in output_dir other than the shared assets
    assets,              \* shared assets present in output_dir
    files,               \* <<entry, f>>: output_dir/entry/surf/f exists
    pc,                  \* position of the script; cp, recon: it waits in run()
    subjects_to_analyze,
    ai,                  \* index of the shared asset being provisioned
    si,                  \* index of subject_label in subjects_to_analyze
    timepoints,
    ti,                  \* index of tp in timepoints
    good_tps,
    bad_tps,
    err,                 \* the uncaught exception, or NoErr
    exit_status,         \* exit status of the interpreter, -1 while running
    log                  \* history: what the run did, in order

\* the state of run(), lines 13-26, and of the child it starts
VARIABLES
    os_environ,          \* os.environ: variable name -> value
    env,                 \* the env argument of the call
    ignore_errors,       \* the ignore_errors argument of the call
    merged_env,          \* what Popen is given as env
    ambient,             \* history: os.environ when run() was entered
    rpc,                 \* position in run(): idle, read, poll, ret
    calls,               \* calls of run() so far; the child of call n has pid n
    children,            \* pids of the children that are running
    command,             \* what the last child was started for: cp, recon-all, or
                         \* "sh", any command line of another caller
    status,              \* exit status of the last child, Running until it has ended
    returncode,          \* process.returncode: None or <<status>>
    pipe,                \* raw lines written and not yet read
    closed,              \* no process holds the write end of the pipe
    line,                \* the variable line
    printed,             \* what print() has put on standard output in this call
    written,             \* history: the raw lines written into the pipe of this call
    outcome              \* how the call ended, none while it is going on

rvars == <<os_environ, env, ignore_errors, merged_env, ambient, rpc, calls, children,
           command, status, returncode, pipe, closed, line, printed, written, outcome>>

vars == <<participant_label, entries, assets, files, pc, subjects_to_analyze,
          ai, si, timepoints, ti, good_tps, bad_tps, err, exit_status, log, rvars>>

\* Python's None
None == <<>>
\* the empty mapping
EmptyEnv == [k \in {} |-> ""]

NoErr == [kind |-> "none"]
Running == 0 - 1

\* what can be written into the pipe, how a child can end, and the environments
NL == "LF"
\* a byte that begins no UTF-8 sequence, such as 0xFF
BadByte == "xFF"
\* the lines cp and recon-all write: text
TextLines == {<<"x", NL>>}
\* the lines of any command: an empty line, text, bytes that are not UTF-8
RawLines == {<<NL>>} \cup TextLines \cup {<<BadByte, NL>>}
ExitStatuses == {0, 1}
EnvNames == {"DEBUG", "SUBJECTS_DIR"}
\* os.environ at the start, and the env arguments
AmbientEnvs == UNION {[D -> {"ambient"}] : D \in SUBSET EnvNames}
EnvArgs == UNION {[D -> {"arg"}] : D \in SUBSET EnvNames}

\* dict.update
Update(d, e) ==
    [k \in DOMAIN d \cup DOMAIN e |-> IF k \in DOMAIN e THEN e[k] ELSE d[k]]
\* dict.pop(key, None)
Pop(d, key) == [k \in DOMAIN d \ {key} |-> d[k]]

\* mutant of MergedEnv: DEBUG is removed before env is merged in
MergedEnv_PopFirst(environ, e) == Update(Pop(environ, "DEBUG"), e)

\* lines 14-17: os.environ, updated with env, DEBUG popped
MergedEnv(environ, e) == Pop(Update(environ, e), "DEBUG")

\* line 21: str(line, 'utf-8') raises UnicodeDecodeError unless this holds
ValidUtf8(raw) == \A i \in 1..Len(raw) : raw[i] # BadByte

\* line 21: str(line, 'utf-8')[:-1]
Decode(raw) == SubSeq(raw, 1, Len(raw) - 1)

\* line 23: line == '' and process.poll() != None
BreakLoop(ln, polled) == ln = <<>> /\ polled # None

\* run() is not being executed
RunIdle ==
    /\ env = EmptyEnv
    /\ ignore_errors = FALSE
    /\ merged_env = EmptyEnv
    /\ ambient = EmptyEnv
    /\ rpc = "idle"
    /\ calls = 0
    /\ children = {}
    /\ command = None
    /\ status = Running
    /\ returncode = None
    /\ pipe = <<>>
    /\ closed = TRUE
    /\ line = <<>>
    /\ printed = <<>>
    /\ written = <<>>
    /\ outcome = [kind |-> "none"]

\* the surf contents an entry can start with
InitialSurf == SUBSET Hemis
\* the entries whose surf directory the code can look into (lines 107-109);
\* ReconTarget gives no other entry of EntryUniverse, so what the others hold
\* is never read or written and they start without pial_lgi files
SurfDirs == {surf_dir(l, ses) : l \in Labels, ses \in {<<"1">>, <<"2">>}}

\* The runs of the model start in one of two families of inputs.  The asset
\* steps (lines 78-90) and the subject loop (lines 92-151) share os.environ and
\* nothing else, so each is given its full range of inputs while the other is
\* kept small.
\* the start of a run whose shared assets are all in place: lines 80, 84 and 88
\* are not reached and SUBJECTS_DIR is not read
InitSubjects ==
    /\ participant_label \in SeqsUpTo(Labels, MaxLabels)
    /\ entries \in {E \in SUBSET EntryUniverse : Cardinality(E) <= MaxEntries}
    /\ assets = AssetSet
    /\ os_environ \in {e \in AmbientEnvs : DOMAIN e = EnvNames}

\* the start of a run with any of the shared assets and SUBJECTS_DIR set or
\* not, for at most one subject with one timepoint
InitAssets ==
    /\ participant_label \in {<<>>, <<S01>>}
    /\ entries \in {{}, {surf_dir(S01, <<"1">>)}}
    /\ assets \in SUBSET AssetSet
    /\ os_environ \in {e \in AmbientEnvs : "DEBUG" \in DOMAIN e}

Init ==
    /\ InitSubjects \/ InitAssets
    /\ \E surf \in [entries -> InitialSurf] :
           /\ \A e \in entries \ SurfDirs : surf[e] = {}
           /\ files = {<<e, f>> \in entries \X Hemis : f \in surf[e]}
    /\ pc = "args"
    /\ subjects_to_analyze = <<>>
    /\ ai = 1
    /\ si = 1
    /\ timepoints = <<>>
    /\ ti = 1
    /\ good_tps = <<>>
    /\ bad_tps = <<>>
    /\ err = NoErr
    /\ exit_status = Running
    /\ log = <<>>
    /\ RunIdle

mvars == <<participant_label, entries, assets, files, pc, subjects_to_analyze,
           ai, si, timepoints, ti, good_tps, bad_tps, err, exit_status, log>>

\* lines 13-18: run(cmd, env=e, ignore_errors=ig) is entered and the child is
\* started; the call then waits in readline(), line 20
Call(cmd, e, ig) ==
    /\ command' = cmd
    /\ env' = e
    /\ ignore_errors' = ig
    /\ ambient' = os_environ
    /\ os_environ' = MergedEnv(os_environ, e)
    /\ merged_env' = MergedEnv(os_environ, e)
    /\ calls' = calls + 1
    /\ children' = children \cup {calls + 1}
    /\ status' = Running
    /\ returncode' = None
    /\ pipe' = <<>>
    /\ closed' = FALSE
    /\ line' = <<>>
    /\ printed' = <<>>
    /\ written' = <<>>
    /\ outcome' = [kind |-> "none"]
    /\ rpc' = "read"

\* an exception that nothing catches: the interpreter prints it and exits 1
Raise(e) ==
    /\ err' = e
    /\ pc' = AfterRaise
    /\ exit_status' = 1

\* lines 58-66
ResolveSubjects ==
    /\ pc = "args"
    /\ IF participant_label # <<>>
       THEN subjects_to_analyze' = participant_label
       ELSE subjects_to_analyze' \in Listings(DerivedSubjects(entries))
    /\ pc' = "outdir"
    /\ UNCHANGED <<participant_label, entries, assets, files, ai, si, timepoints, ti,
                   good_tps, bad_tps, err, exit_status, log>>
    /\ UNCHANGED rvars

\* lines 73-76
CheckOutputDir ==
    /\ pc = "outdir"
    /\ IF OutputDirEmpty(entries, assets)
       THEN /\ Raise([kind |-> "OutputDirEmpty"])
            /\ log' = Append(log, [ev |-> "raise", kind |-> "OutputDirEmpty"])
       ELSE /\ pc' = "assets"
            /\ UNCHANGED <<err, exit_status, log>>
    /\ UNCHANGED <<participant_label, entries, assets, files, subjects_to_analyze,
                   ai, si, timepoints, ti, good_tps, bad_tps>>
    /\ UNCHANGED rvars

\* lines 78-90, one asset, up to the call: when the asset is absent the command
\* is built from os.environ["SUBJECTS_DIR"], a KeyError when that is not set,
\* and run("cp -rf ...", ignore_errors=False) is entered
ProvisionAsset ==
    /\ pc = "assets"
    /\ LET asset == Assets[ai]
           present == asset \in assets
       IN  IF NeedsCopy(assets, asset)
           THEN IF "SUBJECTS_DIR" \notin DOMAIN os_environ
                THEN /\ Raise([kind |-> "KeyError", key |-> "SUBJECTS_DIR"])
                     /\ log' = log \o
                          << [ev |-> "asset", asset |-> asset, present |-> present,
                              copied |-> FALSE],
                             [ev |-> "raise", kind |-> "KeyError"] >>
                     /\ UNCHANGED ai
                     /\ UNCHANGED rvars
                ELSE /\ Call("cp", EmptyEnv, FALSE)
                     /\ pc' = "cp"
                     /\ log' = Append(log,
                           [ev |-> "asset", asset |-> asset, present |-> present,
                            copied |-> TRUE])
                     /\ UNCHANGED <<ai, err, exit_status>>
           ELSE /\ pc' = IF ai < Len(Assets) THEN "assets" ELSE "subject"
                /\ ai' = ai + 1
                /\ log' = Append(log,
                      [ev |-> "asset", asset |-> asset, present |-> present,
                       copied |-> FALSE])
                /\ UNCHANGED <<err, exit_status>>
                /\ UNCHANGED rvars
    /\ UNCHANGED <<participant_label, entries, assets, files, subjects_to_analyze, si,
                   timepoints, ti, good_tps, bad_tps>>

\* lines 80-90, after the call: run() of a copy has returned or raised; nothing
\* catches the exception
CopyReturn ==
    /\ pc = "cp"
    /\ rpc = "idle"
    /\ LET asset == Assets[ai]
           done == [ev |-> "cp", asset |-> asset,
                    rc |-> IF returncode = None THEN Running ELSE returncode[1]]
       IN  IF outcome.kind = "raised"
           THEN /\ Raise([kind |-> "CopyFailed", asset |-> asset])
                /\ log' = log \o <<done, [ev |-> "raise", kind |-> "CopyFailed"]>>
                /\ UNCHANGED ai
           ELSE /\ pc' = IF ai < Len(Assets) THEN "assets" ELSE "subject"
                /\ ai' = ai + 1
                /\ log' = Append(log, done)
                /\ UNCHANGED <<err, exit_status>>
    /\ UNCHANGED rvars
    /\ UNCHANGED <<participant_label, entries, assets, files, subjects_to_analyze, si,
                   timepoints, ti, good_tps, bad_tps>>

\* lines 92-103: the head of the subject loop, timepoint discovery
Discover ==
    /\ pc = "subject"
    /\ si <= Len(subjects_to_analyze)
    /\ LET subject_label == subjects_to_analyze[si]
           tps == SortedTps(long_subjects(entries, subject_label))
       IN  /\ timepoints' = tps
           /\ IF NoTimepoints(tps)
              THEN /\ Raise([kind |-> "NoTimepoints", sub |-> subject_label])
                   /\ log' = log \o
                        << [ev |-> "discover", si |-> si, sub |-> subject_label, tps |-> tps],
                           [ev |-> "raise", kind |-> "NoTimepoints"] >>
                   /\ UNCHANGED <<si, ti, good_tps, bad_tps>>
              ELSE \* "for tp in timepoints" over an empty list has no pass
                   /\ pc' = IF tps = <<>> THEN "subject" ELSE "tp"
                   /\ si' = IF tps = <<>> THEN si + 1 ELSE si
                   /\ ti' = 1
                   /\ good_tps' = <<>>
                   /\ bad_tps' = <<>>
                   /\ log' = Append(log,
                        [ev |-> "discover", si |-> si, sub |-> subject_label, tps |-> tps])
                   /\ UNCHANGED <<err, exit_status>>
    /\ UNCHANGED <<participant_label, entries, assets, files, subjects_to_analyze, ai>>
    /\ UNCHANGED rvars

\* the end of one pass of the timepoint loop: next tp, or next subject
NextTimepoint ==
    IF ti < Len(timepoints)
    THEN /\ ti' = ti + 1
         /\ pc' = "tp"
         /\ UNCHANGED si
    ELSE /\ si' = si + 1
         /\ pc' = "subject"
         /\ UNCHANGED ti

\* lines 105-124: one pass of the timepoint loop, up to the call run(cmd)
Timepoint ==
    /\ pc = "tp"
    /\ LET subject_label == subjects_to_analyze[si]
           tp == timepoints[ti]
           ses == tp_label(tp)
           dir == surf_dir(subject_label, ses)
           pre == {f \in Hemis : <<dir, f>> \in files}
           visit == [ev |-> "skip", si |-> si, sub |-> subject_label, tp |-> tp,
                     ses |-> ses, dir |-> dir, pre |-> pre]
           start == [ev |-> "start", si |-> si, sub |-> subject_label, tp |-> tp,
                     ses |-> ses, dir |-> dir, pre |-> pre,
                     target |-> ReconTarget(tp, subject_label)]
       IN  IF AlreadyComplete(files, dir)
           THEN \* lines 112-113
                /\ NextTimepoint
                /\ log' = Append(log, visit)
                /\ UNCHANGED rvars
           ELSE \* lines 115-124: run(cmd) is entered, inside try
                /\ Call("recon-all", EmptyEnv, FALSE)
                /\ pc' = "recon"
                /\ log' = Append(log, start)
                /\ UNCHANGED <<si, ti>>
    /\ UNCHANGED <<participant_label, entries, assets, files, subjects_to_analyze, ai,
                   timepoints, good_tps, bad_tps, err, exit_status>>

\* lines 124-151: run(cmd) has returned, or raised into "except Exception"
ReconReturn ==
    /\ pc = "recon"
    /\ rpc = "idle"
    /\ LET subject_label == subjects_to_analyze[si]
           tp == timepoints[ti]
           ses == tp_label(tp)
           dir == surf_dir(subject_label, ses)
           raised == outcome.kind = "raised"
           failed == raised \/ img_not_found(files, dir) # <<>>
           good == IF failed THEN good_tps ELSE Append(good_tps, ses)
           bad == IF failed THEN Append(bad_tps, ses) ELSE bad_tps
           done == [ev |-> "run", si |-> si, sub |-> subject_label, tp |-> tp,
                    ses |-> ses, dir |-> dir, pre |-> log[Len(log)].pre,
                    target |-> ReconTarget(tp, subject_label),
                    rc |-> IF returncode = None THEN Running ELSE returncode[1],
                    post |-> {f \in Hemis : <<dir, f>> \in files},
                    good |-> good, bad |-> bad]
       IN  /\ good_tps' = good
           /\ bad_tps' = bad
           /\ IF AggregateRaises(bad)
              THEN /\ Raise(AggregateError(subject_label, good, bad))
                   /\ log' = log \o
                        <<done, [ev |-> "raise", kind |-> "TimepointsFailed"]>>
                   /\ UNCHANGED <<si, ti>>
              ELSE /\ NextTimepoint
                   /\ log' = Append(log, done)
                   /\ UNCHANGED <<err, exit_status>>
    /\ UNCHANGED rvars
    /\ UNCHANGED <<participant_label, entries, assets, files, subjects_to_analyze, ai,
                   timepoints>>

\* the subject loop is exhausted: the script ends, exit status 0
Finish ==
    /\ pc = "subject"
    /\ si > Len(subjects_to_analyze)
    /\ pc' = "exit"
    /\ exit_status' = 0
    /\ UNCHANGED <<participant_label, entries, assets, files, subjects_to_analyze,
                   ai, si, timepoints, ti, good_tps, bad_tps, err, log>>
    /\ UNCHANGED rvars

(* ------------------------------------------------------------------ *)
(* run(), lines 13-26, and the processes of the command                *)
(*                                                                     *)
(* The child is the shell Popen starts (shell=True).  Raw lines (text   *)
(* ended by a newline) are written into the pipe by the child or by a   *)
(* process it left behind, which may go on after the child has ended    *)
(* and after run() is over.  readline() is at end of file once no       *)
(* process holds the write end; poll() gives the exit status once the   *)
(* child has ended.  The reader is the while loop of lines 19-24.  cp   *)
(* and recon-all leave no process behind: their pipe is closed by the   *)
(* time they have ended.                                                *)
(* ------------------------------------------------------------------ *)
\* a line is written into the pipe
ChildWrite ==
    /\ ~closed
    /\ Len(written) < (IF command = "sh" THEN MaxLines ELSE CmdLines)
    /\ \E raw \in (IF command = "sh" THEN RawLines ELSE TextLines) :
         /\ pipe' = Append(pipe, raw)
         /\ written' = Append(written, raw)
    /\ UNCHANGED <<os_environ, env, ignore_errors, merged_env, ambient, rpc, calls,
                   children, command, status, returncode, closed, line, printed,
                   outcome>>
    /\ UNCHANGED mvars

\* cp puts the asset into output_dir
ChildCopy ==
    /\ calls \in children
    /\ command = "cp"
    /\ Assets[ai] \notin assets
    /\ assets' = assets \cup {Assets[ai]}
    /\ UNCHANGED <<participant_label, entries, files, pc, subjects_to_analyze, ai, si,
                   timepoints, ti, good_tps, bad_tps, err, exit_status, log>>
    /\ UNCHANGED rvars

\* recon-all makes its directory <tp>.long.sub-<label>, and writes or removes a
\* pial_lgi file in its surf directory
ChildRecon ==
    /\ calls \in children
    /\ command = "recon-all"
    /\ LET target == ReconTarget(timepoints[ti], subjects_to_analyze[si])
       IN  \/ /\ target \notin entries
              /\ entries' = entries \cup {target}
              /\ UNCHANGED files
           \/ /\ target \in entries
              /\ \E f \in Hemis :
                   files' = IF <<target, f>> \in files THEN files \ {<<target, f>>}
                            ELSE files \cup {<<target, f>>}
              /\ UNCHANGED entries
    /\ UNCHANGED <<participant_label, assets, pc, subjects_to_analyze, ai, si,
                   timepoints, ti, good_tps, bad_tps, err, exit_status, log>>
    /\ UNCHANGED rvars

\* the last process that held the write end of the pipe closes it or ends
ChildClose ==
    /\ ~closed
    /\ closed' = TRUE
    /\ UNCHANGED <<os_environ, env, ignore_errors, merged_env, ambient, rpc, calls,
                   children, command, status, returncode, pipe, line, printed, written,
                   outcome>>
    /\ UNCHANGED mvars

\* a child has ended: from now on poll() gives its exit status.  cp and
\* recon-all have closed the pipe by then, and cp ends with 0 only when the
\* copy is there; the shell of another command line can end while a process it
\* started still holds the pipe.
ChildExit ==
    /\ \E c \in children, st \in ExitStatuses :
         /\ command # "sh" => closed
         /\ (command = "cp" /\ st = 0) => Assets[ai] \in assets
         /\ children' = children \ {c}
         /\ status' = IF c = calls THEN st ELSE status
    /\ UNCHANGED <<os_environ, env, ignore_errors, merged_env, ambient, rpc, calls,
                   command, returncode, pipe, closed, line, printed, written, outcome>>
    /\ UNCHANGED mvars

\* readline() calls of this call of run() that found the pipe at end of file
EofReads == Len(printed) - (Len(written) - Len(pipe))

\* lines 20-22: readline() gives the next raw line, or b'' at end of file; it
\* waits while the pipe is empty and open.  Bytes that are not UTF-8 make line
\* 21 raise UnicodeDecodeError, which leaves run() whatever the child does.  At
\* end of file with the child's status not yet there the loop comes round
\* again: MaxSpin bounds how often.
ReadLine ==
    /\ rpc = "read"
    /\ \/ pipe # <<>>
       \/ closed /\ (calls \notin children \/ EofReads < MaxSpin)
    /\ LET raw == IF pipe # <<>> THEN Head(pipe) ELSE <<>>
       IN  IF ValidUtf8(raw)
           THEN /\ line' = Decode(raw)
                /\ printed' = Append(printed, Decode(raw))
                /\ rpc' = "poll"
                /\ UNCHANGED outcome
           ELSE /\ line' = raw
                /\ outcome' = [kind |-> "raised", exc |-> "UnicodeDecodeError",
                               code |-> None]
                /\ rpc' = "idle"
                /\ UNCHANGED printed
    /\ pipe' = IF pipe # <<>> THEN Tail(pipe) ELSE pipe
    /\ UNCHANGED <<os_environ, env, ignore_errors, merged_env, ambient, calls,
                   children, command, status, returncode, closed, written>>
    /\ UNCHANGED mvars

\* lines 23-24: poll() is asked only when line is empty
PollBreak ==
    /\ rpc = "poll"
    /\ LET polled == IF calls \in children THEN None ELSE <<status>>
       IN  /\ returncode' = IF line = <<>> THEN polled ELSE returncode
           /\ rpc' = IF BreakLoop(line, polled) THEN "ret" ELSE "read"
    /\ UNCHANGED <<os_environ, env, ignore_errors, merged_env, ambient, calls,
                   children, command, status, pipe, closed, line, printed, written,
                   outcome>>
    /\ UNCHANGED mvars

\* lines 25-26 (None != 0 holds in Python)
ReturnOrRaise ==
    /\ rpc = "ret"
    /\ LET raises == IF returncode = None THEN ~ignore_errors
                     ELSE RunRaises(returncode[1], ignore_errors)
       IN  outcome' = IF raises
                      THEN [kind |-> "raised", exc |-> "Exception", code |-> returncode]
                      ELSE [kind |-> "returned"]
    /\ rpc' = "idle"
    /\ UNCHANGED <<os_environ, env, ignore_errors, merged_env, ambient, calls,
                   children, command, status, returncode, pipe, closed, line, printed,
                   written>>
    /\ UNCHANGED mvars

\* the script, lines 58-151, with the calls of run() it waits in
Next ==
    \/ ResolveSubjects
    \/ CheckOutputDir
    \/ ProvisionAsset
    \/ CopyReturn
    \/ Discover
    \/ Timepoint
    \/ ReconReturn
    \/ Finish
    \/ ChildWrite
    \/ ChildCopy
    \/ ChildRecon
    \/ ChildClose
    \/ ChildExit
    \/ ReadLine
    \/ PollBreak
    \/ ReturnOrRaise

Spec == Init /\ [][Next]_vars

(* ------------------------------------------------------------------ *)
(* run() under any caller: any command line, env and ignore_errors;    *)
(* the caller calls run() again after it returned or raised            *)
(* ------------------------------------------------------------------ *)
\* the script is not running
MainIdle ==
    /\ participant_label = <<>>
    /\ entries = {}
    /\ assets = {}
    /\ files = {}
    /\ pc = "args"
    /\ subjects_to_analyze = <<>>
    /\ ai = 1
    /\ si = 1
    /\ timepoints = <<>>
    /\ ti = 1
    /\ good_tps = <<>>
    /\ bad_tps = <<>>
    /\ err = NoErr
    /\ exit_status = Running
    /\ log = <<>>

InitRun ==
    /\ MainIdle
    /\ os_environ \in AmbientEnvs
    /\ RunIdle

\* run(command, env, ignore_errors) is called
Popen ==
    /\ rpc = "idle"
    /\ calls < MaxCalls
    /\ \E e \in EnvArgs, ig \in BOOLEAN : Call("sh", e, ig)
    /\ UNCHANGED mvars

NextRun ==
    \/ Popen
    \/ ChildWrite
    \/ ChildClose
    \/ ChildExit
    \/ ReadLine
    \/ PollBreak
    \/ ReturnOrRaise

SpecRun == InitRun /\ [][NextRun]_vars

\* the interpreter keeps executing run(): no step of the reader waits for ever
SpecRunFair ==
    SpecRun /\ WF_vars(ReadLine) /\ WF_vars(PollBreak) /\ WF_vars(ReturnOrRaise)

(* ------------------------------------------------------------------ *)
(* Reading the history                                                 *)
(* ------------------------------------------------------------------ *)
\* positions of log at which a timepoint was visited: skipped, or recon-all run
\* and run() over
Visits == {i \in 1..Len(log) : log[i].ev \in {"skip", "run"}}
\* positions at which run() was entered for recon-all, and at which it was over
Starts == {i \in 1..Len(log) : log[i].ev = "start"}
Runs == {i \in 1..Len(log) : log[i].ev = "run"}
Skips == {i \in 1..Len(log) : log[i].ev = "skip"}
Raises == {i \in 1..Len(log) : log[i].ev = "raise"}
\* a run that left the timepoint failed: exception, or an output file missing
FailedRuns == {i \in Runs : log[i].rc # 0 \/ log[i].post # Hemis}
Discoveries == {i \in 1..Len(log) : log[i].ev = "discover"}
Provisions == {i \in 1..Len(log) : log[i].ev = "asset"}
\* positions at which run() was over for a copy
Copies == {i \in 1..Len(log) : log[i].ev = "cp"}

(* ------------------------------------------------------------------ *)
(* Claims                                                              *)
(* ------------------------------------------------------------------ *)

C2_ContinueOnFailure ==
    err.kind = "TimepointsFailed" =>
        Cardinality({i \in Visits : log[i].si = si}) = Len(timepoints)

\* C3: the aggregate error names its subject and, by session label, exactly the
\* timepoints of that subject that failed in the run; no label of a timepoint
\* that succeeded or was skipped is named.
C3_AggregateNamesFailed ==
    err.kind = "TimepointsFailed" =>
        /\ err.sub = subjects_to_analyze[si]
        /\ SeqToSet(err.tps) = {log[i].ses : i \in {j \in FailedRuns : log[j].sub = err.sub}}
        /\ \A i \in Visits \ FailedRuns :
               log[i].sub = err.sub => log[i].ses \notin SeqToSet(err.tps)

\* C3 witness: one timepoint computed, the next one failed, the error is raised
C3_Witness ==
    /\ err.kind = "TimepointsFailed"
    /\ \E i \in Runs \ FailedRuns : log[i].si = si
    /\ \E i \in FailedRuns : log[i].si = si

\* C4: once the aggregate error is raised the run is over: nothing is discovered,
\* checked or run after it.
C4_AggregateTerminates ==
    \A i \in Raises :
        log[i].kind = "TimepointsFailed" =>
            /\ i = Len(log)
            /\ pc = "exit"
            /\ exit_status = 1
            /\ ~ENABLED Next

\* C4 witness: the aggregate error is raised while subjects remain in the list
C4_Witness ==
    /\ err.kind = "TimepointsFailed"
    /\ si < Len(subjects_to_analyze)

\* C5 (as claimed): recon-all is run at most once for a timepoint identifier in
\* a run, whichever subject it is run under, also when a label is given twice
\* or the identifier is discovered twice.
C5_AtMostOnce ==
    \A i, j \in Starts : log[i].tp = log[j].tp => i = j

\* C6: a timepoint reached with an output file missing, whose recon-all exits 0
\* and leaves both files, is put on the good list, not on the bad list, and no
\* error is raised after it.
C6_SuccessMarked ==
    \A i \in Runs :
        (log[i].rc = 0 /\ log[i].post = Hemis) =>
            /\ log[i].ses \in SeqToSet(log[i].good)
            /\ log[i].ses \notin SeqToSet(log[i].bad)
            /\ ~(i + 1 \in Raises)

\* C6 witness: both files absent before, recon-all exits 0, both present after
C6_Witness ==
    \E i \in Runs : log[i].pre = {} /\ log[i].rc = 0 /\ log[i].post = Hemis

\* the fatal conditions of the run: the output directory is empty, a subject of
\* the list has no timepoint, a copy of a shared asset failed, a timepoint failed
FatalCondition ==
    \/ entries = {} /\ assets = {}
    \/ \E k \in 1..Len(subjects_to_analyze) :
           long_subjects(entries, subjects_to_analyze[k]) = {}
    \/ \E i \in Copies : log[i].rc # 0
    \/ FailedRuns # {}

\* C7 (as claimed): the run ends with exit status 0 exactly when none of the
\* four fatal conditions occurred.
C7_ExitStatus ==
    pc = "exit" => (exit_status = 0 <=> ~FatalCondition)

\* a shared asset was found absent while SUBJECTS_DIR is not set: line 80, 84 or
\* 88 raises KeyError before any copy command
MissingSubjectsDir ==
    /\ "SUBJECTS_DIR" \notin DOMAIN os_environ
    /\ \E i \in Provisions : ~log[i].present

\* C7 (amended): the run ends with exit status 0 exactly when none of the four
\* fatal conditions occurred and no shared asset was found absent with
\* SUBJECTS_DIR unset.
C7_ExitStatusSubjectsDir ==
    pc = "exit" => (exit_status = 0 <=> ~(FatalCondition \/ MissingSubjectsDir))

\* C7 witness: a run ended on the KeyError with none of the four conditions, its
\* only subject has a timepoint
C7_Witness ==
    /\ pc = "exit" /\ exit_status = 1
    /\ err.kind = "KeyError"
    /\ ~FatalCondition
    /\ subjects_to_analyze # <<>>

\* C8: with an empty output directory the run raises at once: nothing is copied,
\* no command is run and no subject is looked at.
C8_EmptyOutputDir ==
    (entries = {} /\ assets = {} /\ pc \notin {"args", "outdir"}) =>
        /\ err.kind = "OutputDirEmpty"
        /\ pc = "exit"
        /\ exit_status = 1
        /\ log = <<[ev |-> "raise", kind |-> "OutputDirEmpty"]>>
        /\ calls = 0

\* C8 witness: the run ended on the empty output directory, labels were given
C8_Witness ==
    /\ err.kind = "OutputDirEmpty"
    /\ subjects_to_analyze # <<>>

\* C9: a subject for which discovery finds nothing makes the run raise before
\* any recon-all for that subject, and nothing is done after the error.
C9_NoTimepoints ==
    \A i \in Discoveries :
        log[i].tps = <<>> =>
            /\ Len(log) = i + 1
            /\ log[i + 1] = [ev |-> "raise", kind |-> "NoTimepoints"]
            /\ err = [kind |-> "NoTimepoints", sub |-> log[i].sub]
            /\ pc = "exit"
            /\ exit_status = 1
            /\ \A j \in Visits \cup Starts : log[j].si # log[i].si

\* C9 witness: the first subject of the list has no timepoint, another follows
C9_Witness ==
    /\ err.kind = "NoTimepoints"
    /\ si < Len(subjects_to_analyze)
    /\ long_subjects(entries, subjects_to_analyze[si + 1]) # {}

\* C10 (as claimed): a copy command is issued for an asset exactly when it is
\* absent at that moment, and the three provisioning steps come before the first
\* discovery or command.
C10_Provisioning ==
    /\ \A i \in Provisions : log[i].copied <=> ~log[i].present
    /\ \A i \in Discoveries \cup Visits \cup Starts :
           {log[j].asset : j \in {k \in Provisions : k < i}} = AssetSet
    /\ \A i, j \in Provisions : log[i].asset = log[j].asset => i = j

\* C10 (amended): a copy command is issued for an asset exactly when it is
\* absent at that moment and SUBJECTS_DIR is set; when it is absent and
\* SUBJECTS_DIR is not set the run ends there with a KeyError and no command; an
\* asset that is present is never copied over; the three provisioning steps
\* come before the first discovery or command; run() is called for the copies
\* and the recon-all commands and for nothing else.
C10_ProvisioningSubjectsDir ==
    /\ \A i \in Provisions :
           /\ log[i].copied <=>
                  (~log[i].present /\ "SUBJECTS_DIR" \in DOMAIN os_environ)
           /\ (~log[i].present /\ "SUBJECTS_DIR" \notin DOMAIN os_environ) =>
                  /\ Len(log) = i + 1
                  /\ log[i + 1] = [ev |-> "raise", kind |-> "KeyError"]
                  /\ pc = "exit"
                  /\ exit_status = 1
    /\ \A i \in Discoveries \cup Visits \cup Starts :
           {log[j].asset : j \in {k \in Provisions : k < i}} = AssetSet
    /\ \A i, j \in Provisions : log[i].asset = log[j].asset => i = j
    /\ calls = Cardinality({i \in Provisions : log[i].copied}) + Cardinality(Starts)

\* C10 witness: one asset was there, another was copied, a subject was reached
C10_Witness ==
    /\ \E i \in Provisions : log[i].present
    /\ \E i \in Provisions : log[i].copied
    /\ Discoveries # {}

\* the text of a raw line: the line without its newline
LineText(raw) == SelectSeq(raw, LAMBDA ch : ch # NL)

\* C11 (as claimed): when run() has returned or raised, every line the child
\* wrote has been printed, in the order written.
C11_NoLineLost ==
    outcome.kind # "none" =>
        /\ Len(printed) >= Len(written)
        /\ \A i \in 1..Len(written) : printed[i] = LineText(written[i])

\* run() is over, or past its loop, only when its child has ended, and at most
\* one child runs at a time
C12_ChildEnded ==
    /\ (calls > 0 /\ rpc \in {"ret", "idle"}) => calls \notin children
    /\ Cardinality(children) <= 1

\* C12 (as claimed): run() does not return or raise while its child runs, no
\* two children run at once, and once the child has ended run() returns or
\* raises.
C12_Blocks ==
    /\ []C12_ChildEnded
    /\ (rpc # "idle" /\ calls \notin children) ~> (rpc = "idle")

\* C13 (as claimed): run() raises, with the child's exit status, exactly when
\* the child has ended with a status that is not 0 and ignore_errors is false;
\* otherwise it returns.
C13_RaisesIff ==
    (rpc = "idle" /\ calls > 0) =>
        /\ outcome.kind \in {"raised", "returned"}
        /\ outcome.kind = "raised" <=>
               (calls \notin children /\ status # 0 /\ ~ignore_errors)
        /\ outcome.kind = "raised" => outcome.code = <<status>>

\* C14: the environment of every child has no DEBUG, and has every other
\* binding of the env argument, whatever os.environ held.
C14_ChildEnv ==
    calls > 0 =>
        /\ "DEBUG" \notin DOMAIN merged_env
        /\ \A k \in DOMAIN env \ {"DEBUG"} :
               k \in DOMAIN merged_env /\ merged_env[k] = env[k]

\* C14 witness: DEBUG in os.environ and in env, SUBJECTS_DIR in both
C14_Witness ==
    /\ calls > 0
    /\ DOMAIN ambient = EnvNames
    /\ DOMAIN env = EnvNames
    /\ ambient["SUBJECTS_DIR"] # env["SUBJECTS_DIR"]

\* the subject a timepoint identifier names: the label after "sub-", up to "_"
SubjectOf(tp) == SplitLast(SplitFirst(tp, <<"_">>), <<"-">>)

\* C15 (as claimed): every timepoint visited for a subject is a timepoint of
\* exactly that subject; no entry of "010" is handled as a timepoint of "01".
C15_OwnTimepoints ==
    \A i \in Visits : SubjectOf(log[i].tp) = log[i].sub

\* C16 (as claimed): the timepoints iterated for a subject are in ascending
\* order and no identifier occurs twice.
C16_SortedDistinct ==
    \A i \in Discoveries :
        \A a, b \in 1..Len(log[i].tps) :
            a < b => /\ StrLeq(log[i].tps[a], log[i].tps[b])
                     /\ log[i].tps[a] # log[i].tps[b]

\* C17 (as claimed): the entry whose surf directory is checked for a timepoint
\* is <tp>.long.sub-<label>, the entry recon-all is run for.
C17_SameEntry ==
    \A i \in Visits : log[i].dir = ReconTarget(log[i].tp, log[i].sub)

====
